---- MODULE Spec2Model ----
(***************************************************************************)
(* TeamBettingContract (src/contract.py): a two-team betting round with a  *)
(* fixed pot, a commission, time-decaying points, a force-refund path and  *)
(* per-account withdrawal.                                                  *)
(*                                                                         *)
(* Every public method is an operator from the stored state, the caller    *)
(* and the arguments to a record [st, err, ev]: st is the storage as the   *)
(* method's writes leave it at the point where it returns or raises (the   *)
(* writes made before a raise are kept in st, so that "a rejected call     *)
(* changes nothing" is a property of the order of checks and writes in the *)
(* code), err is "ok" or the message of the exception raised, and ev are   *)
(* the events the method logs.                                             *)
(*                                                                         *)
(* Scale: Python integers are unbounded and the contract counts yoctoNEAR  *)
(* (ONE_NEAR = 10^24) and nanoseconds.  Here amounts are counted in units  *)
(* of 10^23 yocto, so ONE_NEAR is 10 and MIN_BET (half a NEAR) is 5, and   *)
(* timestamps are counted in seconds, so NANOS_PER_SECOND is 1.  All the   *)
(* arithmetic of the code (floor divisions, comparisons) is kept.          *)
(***************************************************************************)
EXTENDS Integers, Sequences, FiniteSets, TLC

VARIABLES
    storage,          \* self.storage: the contract's key-value state
    block_timestamp,  \* the host's clock (self.block_timestamp)
    log,              \* events logged for this round: its start (pot and
                      \* commission) and its settlement (payouts)
    pending,          \* accounts with a transfer scheduled by withdraw, not yet executed
    settled,          \* history: withdrawable_balances as stored by the settlement
    released,         \* history: amount handed to the transfer step, per account
    staked,           \* history: deposits accepted from each account this round
    nbets             \* history: number of bets accepted this round

vars == <<storage, block_timestamp, log, pending, settled, released,
          staked, nbets>>

----------------------------------------------------------------------------
(* Program constants (scaled, see above) *)

ONE_NEAR == 10

MIN_BET == 5

NANOS_PER_SECOND == 1

SECONDS_PER_HOUR == 3600

DEFAULT_GAME_DURATION == 3600

DEFAULT_COMMISSION_RATE == 10

MAX_COMMISSION_RATE == 50

MIN_GAME_DURATION == 60
\* the longest of the durations set_game_duration documents: 36 hours
LONG_GAME_DURATION == 129600

POINT_RATES == <<24, 23, 22, 21, 20, 19, 18, 17, 16, 15>>

ADMIN == "admin"

----------------------------------------------------------------------------
(* Bounds and input sets *)

\* bets accepted per round: bet_on_team is called while fewer were accepted
MaxBets == 2
\* bet_on_team calls per round where only betting and end_game are explored
MaxSettleBets == 3

\* the accounts that call the contract
Users == {"admin", "alice", "bob"}

\* the accounts that attach deposits to bet_on_team (the admin only administers)
Bettors == {"alice", "bob"}

Teams == {"A", "B", "C"}

Deposits == {4, 5, 15}

PotSizes == {0, 1}

CommissionRates == {-1, 50, 51}

Durations == {59, 7200}

TimePoints == {0, 3600}
\* block timestamps of the 36 hour round: the first instant, the last instant
\* of the first hour, the second hour, the last instant of the rate table,
\* and two instants past the table
\* the accounts and deposits of the rounds explored up to end_game
SettleBettors == {"alice", "bob", "carol"}
SettleDeposits == {5, 15}
\* the commission rates those rounds start with
SettleRates == {10, 50}
RateTimePoints == {0, 3599, 3600, 35999, 36000, 39600}

----------------------------------------------------------------------------
(* Exception messages *)

ErrAdmin == "Only admin can call this function"
ErrPaused == "Contract is paused"
ErrPotActive == "Cannot change pot size during active game"
ErrRateActive == "Cannot change commission rate during active game"
ErrRateRange == "Commission rate must be between 0 and 50 percent"
ErrDurActive == "Cannot change game duration during active game"
ErrDurMin == "Game duration must be at least 60 seconds"
ErrAlreadyActive == "Game already active"
ErrPotUnset == "Pot size must be set first"
ErrNoGame == "No active game"
ErrRefundMode == "Game is in refund mode, betting disabled"
ErrTeam == "Team must be 'A' or 'B'"
ErrMinBet == "Minimum bet is 0.5 NEAR"
ErrEnded == "Betting period has ended"
ErrTie == "Cannot end game with tie score"
ErrNoBalance == "No balance to withdraw"

----------------------------------------------------------------------------
(* Python dict helpers: a dict is a function whose domain is its key set *)

EmptyMap == [k \in {} |-> 0]

Put(m, k, v) == [x \in (DOMAIN m) \cup {k} |-> IF x = k THEN v ELSE m[x]]

Del(m, k) == [x \in (DOMAIN m) \ {k} |-> m[x]]

RECURSIVE SumOver(_, _)
SumOver(m, S) ==
    IF S = {} THEN 0
    ELSE LET k == CHOOSE x \in S : TRUE IN m[k] + SumOver(m, S \ {k})

\* sum(bet["amount"] for bet in bets.values())
SumAmount(bets) == SumOver([k \in DOMAIN bets |-> bets[k].amount], DOMAIN bets)

\* sum(bet["points"] for bet in bets.values())
SumPoints(bets) == SumOver([k \in DOMAIN bets |-> bets[k].points], DOMAIN bets)

NoEvents == [kind |-> "none"]

Ok(s) == [st |-> s, err |-> "ok", ev |-> NoEvents]

OkEv(s, e) == [st |-> s, err |-> "ok", ev |-> e]

\* raise Exception(msg): the call ends with the storage as written so far
Raise(s, msg) == [st |-> s, err |-> msg, ev |-> NoEvents]

----------------------------------------------------------------------------
(* initialize(admin_id) *)

initialize(admin_id) ==
    [ admin |-> admin_id,
      paused |-> FALSE,
      game_active |-> FALSE,
      game_started |-> FALSE,
      game_start_time |-> 0,
      game_duration |-> DEFAULT_GAME_DURATION,
      pot_size |-> 0,
      commission_rate |-> DEFAULT_COMMISSION_RATE,
      team_a_bets |-> EmptyMap,
      team_b_bets |-> EmptyMap,
      team_a_points |-> 0,
      team_b_points |-> 0,
      winning_team |-> "",
      force_refund_mode |-> FALSE,
      point_rates |-> POINT_RATES,
      withdrawable_balances |-> EmptyMap ]

\* assert_admin raises unless the caller is the stored admin
\* assert_admin that lets every caller through
assert_admin_Anyone(s, caller) == TRUE

assert_admin(s, caller) == caller = s.admin

\* assert_not_paused raises when the paused flag is set
assert_not_paused(s) == ~s.paused

----------------------------------------------------------------------------
(* Pause / unpause *)

pause_game(s, caller) ==
    IF ~assert_admin(s, caller) THEN Raise(s, ErrAdmin)
    ELSE Ok([s EXCEPT !.paused = TRUE])

unpause_game(s, caller) ==
    IF ~assert_admin(s, caller) THEN Raise(s, ErrAdmin)
    ELSE Ok([s EXCEPT !.paused = FALSE])

----------------------------------------------------------------------------
(* Admin configuration *)

\* set_pot_size without the check that no round is active
set_pot_size_DuringGame(s, caller, pot_size) ==
    IF ~assert_admin(s, caller) THEN Raise(s, ErrAdmin)
    ELSE IF ~assert_not_paused(s) THEN Raise(s, ErrPaused)
    ELSE Ok([s EXCEPT !.pot_size = pot_size])

set_pot_size(s, caller, pot_size) ==
    IF ~assert_admin(s, caller) THEN Raise(s, ErrAdmin)
    ELSE IF ~assert_not_paused(s) THEN Raise(s, ErrPaused)
    ELSE IF s.game_active THEN Raise(s, ErrPotActive)
    ELSE Ok([s EXCEPT !.pot_size = pot_size])

set_commission_rate(s, caller, rate) ==
    IF ~assert_admin(s, caller) THEN Raise(s, ErrAdmin)
    ELSE IF ~assert_not_paused(s) THEN Raise(s, ErrPaused)
    ELSE IF s.game_active THEN Raise(s, ErrRateActive)
    ELSE IF rate < 0 \/ rate > MAX_COMMISSION_RATE THEN Raise(s, ErrRateRange)
    ELSE Ok([s EXCEPT !.commission_rate = rate])

set_game_duration(s, caller, duration_seconds) ==
    IF ~assert_admin(s, caller) THEN Raise(s, ErrAdmin)
    ELSE IF ~assert_not_paused(s) THEN Raise(s, ErrPaused)
    ELSE IF s.game_active THEN Raise(s, ErrDurActive)
    ELSE IF duration_seconds < MIN_GAME_DURATION THEN Raise(s, ErrDurMin)
    ELSE Ok([s EXCEPT !.game_duration = duration_seconds])

----------------------------------------------------------------------------
(* Game lifecycle *)

\* start_game that does not reset the teams' point totals
start_game_KeepsPoints(s, caller, now) ==
    IF ~assert_admin(s, caller) THEN Raise(s, ErrAdmin)
    ELSE IF ~assert_not_paused(s) THEN Raise(s, ErrPaused)
    ELSE IF s.game_active THEN Raise(s, ErrAlreadyActive)
    ELSE IF s.pot_size <= 0 THEN Raise(s, ErrPotUnset)
    ELSE OkEv([s EXCEPT !.game_active = TRUE,
                        !.game_started = TRUE,
                        !.game_start_time = now,
                        !.team_a_bets = EmptyMap,
                        !.team_b_bets = EmptyMap,
                        !.winning_team = "",
                        !.force_refund_mode = FALSE,
                        !.withdrawable_balances = EmptyMap],
              [kind |-> "game_started",
               pot_size |-> s.pot_size,
               commission_rate |-> s.commission_rate,
               game_duration |-> s.game_duration,
               start_time |-> now])

\* start_game that leaves the unclaimed withdrawable balances in place
start_game_KeepsBalances(s, caller, now) ==
    IF ~assert_admin(s, caller) THEN Raise(s, ErrAdmin)
    ELSE IF ~assert_not_paused(s) THEN Raise(s, ErrPaused)
    ELSE IF s.game_active THEN Raise(s, ErrAlreadyActive)
    ELSE IF s.pot_size <= 0 THEN Raise(s, ErrPotUnset)
    ELSE OkEv([s EXCEPT !.game_active = TRUE,
                        !.game_started = TRUE,
                        !.game_start_time = now,
                        !.team_a_bets = EmptyMap,
                        !.team_b_bets = EmptyMap,
                        !.team_a_points = 0,
                        !.team_b_points = 0,
                        !.winning_team = "",
                        !.force_refund_mode = FALSE],
              [kind |-> "game_started",
               pot_size |-> s.pot_size,
               commission_rate |-> s.commission_rate,
               game_duration |-> s.game_duration,
               start_time |-> now])

\* start_game without the check that no round is active
start_game_NoActiveCheck(s, caller, now) ==
    IF ~assert_admin(s, caller) THEN Raise(s, ErrAdmin)
    ELSE IF ~assert_not_paused(s) THEN Raise(s, ErrPaused)
    ELSE IF s.pot_size <= 0 THEN Raise(s, ErrPotUnset)
    ELSE OkEv([s EXCEPT !.game_active = TRUE,
                        !.game_started = TRUE,
                        !.game_start_time = now,
                        !.team_a_bets = EmptyMap,
                        !.team_b_bets = EmptyMap,
                        !.team_a_points = 0,
                        !.team_b_points = 0,
                        !.winning_team = "",
                        !.force_refund_mode = FALSE,
                        !.withdrawable_balances = EmptyMap],
              [kind |-> "game_started",
               pot_size |-> s.pot_size,
               commission_rate |-> s.commission_rate,
               game_duration |-> s.game_duration,
               start_time |-> now])

start_game(s, caller, now) ==
    IF ~assert_admin(s, caller) THEN Raise(s, ErrAdmin)
    ELSE IF ~assert_not_paused(s) THEN Raise(s, ErrPaused)
    ELSE IF s.game_active THEN Raise(s, ErrAlreadyActive)
    ELSE IF s.pot_size <= 0 THEN Raise(s, ErrPotUnset)
    ELSE OkEv([s EXCEPT !.game_active = TRUE,
                        !.game_started = TRUE,
                        !.game_start_time = now,
                        !.team_a_bets = EmptyMap,
                        !.team_b_bets = EmptyMap,
                        !.team_a_points = 0,
                        !.team_b_points = 0,
                        !.winning_team = "",
                        !.force_refund_mode = FALSE,
                        !.withdrawable_balances = EmptyMap],
              [kind |-> "game_started",
               pot_size |-> s.pot_size,
               commission_rate |-> s.commission_rate,
               game_duration |-> s.game_duration,
               start_time |-> now])

\* f"team_{team.lower()}_bets" read from the storage
BetsOf(s, team) == IF team = "A" THEN s.team_a_bets ELSE s.team_b_bets

\* f"team_{team.lower()}_points" read from the storage
PointsOf(s, team) == IF team = "A" THEN s.team_a_points ELSE s.team_b_points

\* self.storage[team_key] = team_bets
StoreBets(s, team, bets) ==
    IF team = "A" THEN [s EXCEPT !.team_a_bets = bets]
    ELSE [s EXCEPT !.team_b_bets = bets]

\* self.storage[points_key] = points
StorePoints(s, team, points) ==
    IF team = "A" THEN [s EXCEPT !.team_a_points = points]
    ELSE [s EXCEPT !.team_b_points = points]

\* the point rate of a bet placed time_elapsed after the start of the round
PointRate(s, time_elapsed) ==
    LET hours_elapsed == time_elapsed \div (SECONDS_PER_HOUR * NANOS_PER_SECOND)
    IN  IF hours_elapsed >= Len(s.point_rates) THEN 1
        ELSE s.point_rates[hours_elapsed + 1]

\* PointsEarned that multiplies by the rate before taking whole tokens
PointsEarned_MultiplyFirst(s, bet_amount, time_elapsed) ==
    (bet_amount * PointRate(s, time_elapsed)) \div ONE_NEAR

\* points_earned = (bet_amount // ONE_NEAR) * point_rate
PointsEarned(s, bet_amount, time_elapsed) ==
    (bet_amount \div ONE_NEAR) * PointRate(s, time_elapsed)

\* the record written for user_id: a new bet, or the existing one increased
BetRecord(team_bets, user_id, bet_amount, points_earned) ==
    IF user_id \in DOMAIN team_bets
    THEN [amount |-> team_bets[user_id].amount + bet_amount,
          points |-> team_bets[user_id].points + points_earned]
    ELSE [amount |-> bet_amount, points |-> points_earned]

\* bet_on_team that still accepts a bet at the instant the duration elapses
bet_on_team_AcceptsAtDeadline(s, caller, team, attached_deposit, now) ==
    IF ~assert_not_paused(s) THEN Raise(s, ErrPaused)
    ELSE IF ~s.game_active THEN Raise(s, ErrNoGame)
    ELSE IF s.force_refund_mode THEN Raise(s, ErrRefundMode)
    ELSE IF team \notin {"A", "B"} THEN Raise(s, ErrTeam)
    ELSE IF attached_deposit < MIN_BET THEN Raise(s, ErrMinBet)
    ELSE
      LET user_id == caller
          bet_amount == attached_deposit
          time_elapsed == now - s.game_start_time
      IN  IF time_elapsed > s.game_duration * NANOS_PER_SECOND
          THEN Raise(s, ErrEnded)
          ELSE
            LET points_earned == PointsEarned(s, bet_amount, time_elapsed)
                team_bets == Put(BetsOf(s, team), user_id,
                                 BetRecord(BetsOf(s, team), user_id,
                                           bet_amount, points_earned))
                s1 == StoreBets(s, team, team_bets)
                s2 == StorePoints(s1, team, PointsOf(s1, team) + points_earned)
            IN  OkEv(s2, [kind |-> "bet_placed", user |-> user_id,
                          team |-> team, amount |-> bet_amount,
                          points |-> points_earned])

bet_on_team(s, caller, team, attached_deposit, now) ==
    IF ~assert_not_paused(s) THEN Raise(s, ErrPaused)
    ELSE IF ~s.game_active THEN Raise(s, ErrNoGame)
    ELSE IF s.force_refund_mode THEN Raise(s, ErrRefundMode)
    ELSE IF team \notin {"A", "B"} THEN Raise(s, ErrTeam)
    ELSE IF attached_deposit < MIN_BET THEN Raise(s, ErrMinBet)
    ELSE
      LET user_id == caller
          bet_amount == attached_deposit
          time_elapsed == now - s.game_start_time
      IN  IF time_elapsed >= s.game_duration * NANOS_PER_SECOND
          THEN Raise(s, ErrEnded)
          ELSE
            LET points_earned == PointsEarned(s, bet_amount, time_elapsed)
                team_bets == Put(BetsOf(s, team), user_id,
                                 BetRecord(BetsOf(s, team), user_id,
                                           bet_amount, points_earned))
                s1 == StoreBets(s, team, team_bets)
                s2 == StorePoints(s1, team, PointsOf(s1, team) + points_earned)
            IN  OkEv(s2, [kind |-> "bet_placed", user |-> user_id,
                          team |-> team, amount |-> bet_amount,
                          points |-> points_earned])

----------------------------------------------------------------------------
(* Force refund *)

\* RefundBalances whose second loop assigns instead of adding
RefundBalances_Overwrite(team_a_bets, team_b_bets) ==
    [u \in (DOMAIN team_a_bets) \cup (DOMAIN team_b_bets) |->
        IF u \in DOMAIN team_b_bets THEN team_b_bets[u].amount
        ELSE team_a_bets[u].amount]

\* the two loops of force_end_game_refund: team A's amounts, then team B's
\* amounts added to (or inserted into) the same dict
RefundBalances(team_a_bets, team_b_bets) ==
    [u \in (DOMAIN team_a_bets) \cup (DOMAIN team_b_bets) |->
        (IF u \in DOMAIN team_a_bets THEN team_a_bets[u].amount ELSE 0)
      + (IF u \in DOMAIN team_b_bets THEN team_b_bets[u].amount ELSE 0)]

\* force_end_game_refund that does not clear game_active
force_end_game_refund_StaysActive(s, caller) ==
    IF ~assert_admin(s, caller) THEN Raise(s, ErrAdmin)
    ELSE IF ~assert_not_paused(s) THEN Raise(s, ErrPaused)
    ELSE IF ~s.game_active THEN Raise(s, ErrNoGame)
    ELSE
      LET s1 == [s EXCEPT !.force_refund_mode = TRUE]
          withdrawable_balances == RefundBalances(s1.team_a_bets, s1.team_b_bets)
          s2 == [s1 EXCEPT !.withdrawable_balances = withdrawable_balances]
      IN  OkEv(s2, [kind |-> "force_refund_triggered",
                    total_users |-> Cardinality(DOMAIN withdrawable_balances)])

force_end_game_refund(s, caller) ==
    IF ~assert_admin(s, caller) THEN Raise(s, ErrAdmin)
    ELSE IF ~assert_not_paused(s) THEN Raise(s, ErrPaused)
    ELSE IF ~s.game_active THEN Raise(s, ErrNoGame)
    ELSE
      LET s1 == [s EXCEPT !.game_active = FALSE, !.force_refund_mode = TRUE]
          withdrawable_balances == RefundBalances(s1.team_a_bets, s1.team_b_bets)
          s2 == [s1 EXCEPT !.withdrawable_balances = withdrawable_balances]
      IN  OkEv(s2, [kind |-> "force_refund_triggered",
                    total_users |-> Cardinality(DOMAIN withdrawable_balances)])

----------------------------------------------------------------------------
(* Normal end of the round *)

\* Commission that takes the hundredth of the pot before multiplying
Commission_DivideFirst(pot_size, commission_rate) ==
    (pot_size \div 100) * commission_rate

\* commission_amount = (pot_size * commission_rate) // 100
Commission(pot_size, commission_rate) == (pot_size * commission_rate) \div 100

\* WinnerPayout with the pot share rounded up
WinnerPayout_RoundsUp(bet_info, pot_size, winning_total_points) ==
    IF winning_total_points > 0
    THEN bet_info.amount
           + (bet_info.points * pot_size + winning_total_points - 1)
               \div winning_total_points
    ELSE bet_info.amount

\* a winner's payout: the stake plus the points-proportional share of the pot
WinnerPayout(bet_info, pot_size, winning_total_points) ==
    IF winning_total_points > 0
    THEN bet_info.amount + (bet_info.points * pot_size) \div winning_total_points
    ELSE bet_info.amount

\* LoserRefund without the test that the losing side covers what is due
LoserRefund_Uncovered(bet_info, total_to_pay, losing_total_amount) ==
    bet_info.amount - (bet_info.amount * total_to_pay) \div losing_total_amount

\* a loser's refund: the stake minus the stake-proportional share of what is
\* due, when the losing side covers it; nothing otherwise
LoserRefund(bet_info, total_to_pay, losing_total_amount) ==
    IF losing_total_amount >= total_to_pay
    THEN bet_info.amount - (bet_info.amount * total_to_pay) \div losing_total_amount
    ELSE 0

\* withdrawable_balances as the two loops leave it: the winners' entries are
\* written first, the losers' entries are written after them under the same keys
PayoutBalances(winner_payout, loser_payout) ==
    [u \in (DOMAIN winner_payout) \cup (DOMAIN loser_payout) |->
        IF u \in DOMAIN loser_payout THEN loser_payout[u] ELSE winner_payout[u]]

_distribute_payouts_new(s) ==
    LET winning_team == s.winning_team
        pot_size == s.pot_size * ONE_NEAR
        commission_rate == s.commission_rate
        winning_bets == BetsOf(s, winning_team)
        losing_bets == BetsOf(s, IF winning_team = "B" THEN "A" ELSE "B")
        losing_total_amount == SumAmount(losing_bets)
        winning_total_points == SumPoints(winning_bets)
        commission_amount == Commission(pot_size, commission_rate)
        total_to_pay == pot_size + commission_amount
        winner_payout == [u \in DOMAIN winning_bets |->
                            WinnerPayout(winning_bets[u], pot_size,
                                         winning_total_points)]
        loser_payout == [u \in DOMAIN losing_bets |->
                            LoserRefund(losing_bets[u], total_to_pay,
                                        losing_total_amount)]
        withdrawable_balances == PayoutBalances(winner_payout, loser_payout)
    IN  OkEv([s EXCEPT !.withdrawable_balances = withdrawable_balances],
             [kind |-> "game_ended",
              winner_payout |-> winner_payout,
              loser_payout |-> loser_payout,
              commission |-> commission_amount])

\* end_game that closes the round before it tests for a tie
end_game_ClosesBeforeTieCheck(s, caller) ==
    IF ~assert_admin(s, caller) THEN Raise(s, ErrAdmin)
    ELSE IF ~assert_not_paused(s) THEN Raise(s, ErrPaused)
    ELSE IF ~s.game_active THEN Raise(s, ErrNoGame)
    ELSE
      LET s0 == [s EXCEPT !.game_active = FALSE] IN
      IF s0.team_a_points = s0.team_b_points THEN Raise(s0, ErrTie)
      ELSE
        LET winning_team == IF s0.team_a_points > s0.team_b_points
                            THEN "A" ELSE "B"
            s1 == [s0 EXCEPT !.winning_team = winning_team]
        IN  _distribute_payouts_new(s1)

\* end_game without the tie check: a tie falls to the ELSE branch, team B
end_game_TieGoesToB(s, caller) ==
    IF ~assert_admin(s, caller) THEN Raise(s, ErrAdmin)
    ELSE IF ~assert_not_paused(s) THEN Raise(s, ErrPaused)
    ELSE IF ~s.game_active THEN Raise(s, ErrNoGame)
    ELSE
      LET winning_team == IF s.team_a_points > s.team_b_points THEN "A" ELSE "B"
          s1 == [s EXCEPT !.winning_team = winning_team, !.game_active = FALSE]
      IN  _distribute_payouts_new(s1)

end_game(s, caller) ==
    IF ~assert_admin(s, caller) THEN Raise(s, ErrAdmin)
    ELSE IF ~assert_not_paused(s) THEN Raise(s, ErrPaused)
    ELSE IF ~s.game_active THEN Raise(s, ErrNoGame)
    ELSE IF s.team_a_points = s.team_b_points THEN Raise(s, ErrTie)
    ELSE
      LET winning_team == IF s.team_a_points > s.team_b_points THEN "A" ELSE "B"
          s1 == [s EXCEPT !.winning_team = winning_team, !.game_active = FALSE]
      IN  _distribute_payouts_new(s1)

----------------------------------------------------------------------------
(* Withdrawal *)

\* withdraw that hands the amount to the transfer and leaves the entry stored
withdraw_KeepsEntry(s, caller) ==
    IF ~assert_not_paused(s) THEN Raise(s, ErrPaused)
    ELSE
      LET user_id == caller
          withdrawable_balances == s.withdrawable_balances
      IN  IF user_id \notin DOMAIN withdrawable_balances
          THEN Raise(s, ErrNoBalance)
          ELSE
            LET amount == withdrawable_balances[user_id] IN
            IF amount <= 0 THEN Raise(s, ErrNoBalance)
            ELSE OkEv(s, [kind |-> "withdrawal", user |-> user_id,
                          amount |-> amount])

\* withdraw without the pause guard
withdraw_NoPauseCheck(s, caller) ==
    LET user_id == caller
        withdrawable_balances == s.withdrawable_balances
    IN  IF user_id \notin DOMAIN withdrawable_balances
        THEN Raise(s, ErrNoBalance)
        ELSE
          LET amount == withdrawable_balances[user_id] IN
          IF amount <= 0 THEN Raise(s, ErrNoBalance)
          ELSE OkEv([s EXCEPT !.withdrawable_balances =
                                  Del(withdrawable_balances, user_id)],
                    [kind |-> "withdrawal", user |-> user_id,
                     amount |-> amount])

withdraw(s, caller) ==
    IF ~assert_not_paused(s) THEN Raise(s, ErrPaused)
    ELSE
      LET user_id == caller
          withdrawable_balances == s.withdrawable_balances
      IN  IF user_id \notin DOMAIN withdrawable_balances
          THEN Raise(s, ErrNoBalance)
          ELSE
            LET amount == withdrawable_balances[user_id] IN
            IF amount <= 0 THEN Raise(s, ErrNoBalance)
            ELSE OkEv([s EXCEPT !.withdrawable_balances =
                                    Del(withdrawable_balances, user_id)],
                      [kind |-> "withdrawal", user |-> user_id,
                       amount |-> amount])

----------------------------------------------------------------------------
(* The state machine: one action per public method, called by any account *)
(* with any argument of the input sets, plus the host's clock and the      *)
(* execution of a scheduled transfer.                                      *)

Init ==
    /\ storage = initialize(ADMIN)
    /\ block_timestamp = 0
    /\ log = [started |-> NoEvents, settlement |-> NoEvents]
    /\ pending = {}
    /\ settled = EmptyMap
    /\ released = EmptyMap
    /\ staked = EmptyMap
    /\ nbets = 0

\* a call that touches neither the round's history nor the transfers
Plain(r) ==
    /\ storage' = r.st
    /\ UNCHANGED <<block_timestamp, log, pending, settled, released, staked, nbets>>

PauseGame == \E c \in Users : Plain(pause_game(storage, c))

UnpauseGame == \E c \in Users : Plain(unpause_game(storage, c))

SetPotSize == \E c \in Users, p \in PotSizes : Plain(set_pot_size(storage, c, p))

SetCommissionRate ==
    \E c \in Users, x \in CommissionRates : Plain(set_commission_rate(storage, c, x))

SetGameDuration ==
    \E c \in Users, d \in Durations : Plain(set_game_duration(storage, c, d))

StartGame ==
    \E c \in Users :
      LET r == start_game(storage, c, block_timestamp) IN
      /\ storage' = r.st
        /\ IF r.err = "ok"
         THEN /\ log' = [started |-> [kind |-> r.ev.kind,
                                       pot_size |-> r.ev.pot_size,
                                       commission_rate |-> r.ev.commission_rate],
                          settlement |-> NoEvents]
              /\ settled' = EmptyMap
              /\ released' = EmptyMap
              /\ staked' = EmptyMap
              /\ nbets' = 0
         ELSE UNCHANGED <<log, settled, released, staked, nbets>>
      /\ UNCHANGED <<block_timestamp, pending>>

\* bet_on_team called by an account of callers with a deposit of deposits,
\* while fewer than limit calls of the round were made
PlaceBet(callers, deposits, limit) ==
    \E c \in callers, t \in Teams, d \in deposits :
      LET r == bet_on_team(storage, c, t, d, block_timestamp) IN
      /\ nbets < limit
      /\ storage' = r.st
        /\ IF r.err = "ok"
         THEN /\ staked' = Put(staked, c,
                               (IF c \in DOMAIN staked THEN staked[c] ELSE 0) + d)
              /\ nbets' = nbets + 1
         ELSE UNCHANGED <<staked, nbets>>
      /\ UNCHANGED <<block_timestamp, log, pending, settled, released>>

BetOnTeam == PlaceBet(Bettors, Deposits, MaxBets)

\* a settlement: the history keeps the events and the balances it stored
Settle(r) ==
    /\ storage' = r.st
    /\ IF r.err = "ok"
       THEN /\ log' = [log EXCEPT !.settlement = r.ev]
            /\ settled' = r.st.withdrawable_balances
       ELSE UNCHANGED <<log, settled>>
    /\ UNCHANGED <<block_timestamp, pending, released, staked, nbets>>

ForceEndGameRefund == \E c \in Users : Settle(force_end_game_refund(storage, c))

EndGame == \E c \in Users : Settle(end_game(storage, c))

\* withdraw: the logged withdrawal is the transfer handed to the host
Withdraw ==
    \E c \in Users :
      LET r == withdraw(storage, c) IN
      /\ storage' = r.st
        /\ IF r.err = "ok"
         THEN /\ pending' = pending \cup {r.ev.user}
              /\ released' = Put(released, r.ev.user,
                                 (IF r.ev.user \in DOMAIN released
                                  THEN released[r.ev.user] ELSE 0) + r.ev.amount)
         ELSE UNCHANGED <<pending, released>>
      /\ UNCHANGED <<block_timestamp, log, settled, staked, nbets>>

\* the host executes a scheduled transfer
Transfer ==
    \E t \in pending :
      /\ pending' = pending \ {t}
      /\ UNCHANGED <<storage, block_timestamp, log, settled, released,
                     staked, nbets>>

\* the host's clock advances
Tick ==
    \E t \in TimePoints :
      /\ t > block_timestamp
      /\ block_timestamp' = t
      /\ UNCHANGED <<storage, log, pending, settled, released, staked, nbets>>

Next ==
    \/ PauseGame
    \/ UnpauseGame
    \/ SetPotSize
    \/ SetCommissionRate
    \/ SetGameDuration
    \/ StartGame
    \/ BetOnTeam
    \/ ForceEndGameRefund
    \/ EndGame
    \/ Withdraw
    \/ Transfer
    \/ Tick

Spec == Init /\ [][Next]_vars

----------------------------------------------------------------------------
(* The betting window of a 36 hour round: the state after the admin set    *)
(* the pot and the duration and started the round at time 0, then bets as  *)
(* the clock runs through and past the ten hours of the rate table.        *)

LongRound ==
    LET s1 == set_pot_size(initialize(ADMIN), ADMIN, 1).st
        s2 == set_game_duration(s1, ADMIN, LONG_GAME_DURATION).st
    IN  start_game(s2, ADMIN, 0)

InitRates ==
    /\ storage = LongRound.st
    /\ block_timestamp = 0
    /\ log = [started |-> [kind |-> LongRound.ev.kind,
                           pot_size |-> LongRound.ev.pot_size,
                           commission_rate |-> LongRound.ev.commission_rate],
              settlement |-> NoEvents]
    /\ pending = {}
    /\ settled = EmptyMap
    /\ released = EmptyMap
    /\ staked = EmptyMap
    /\ nbets = 0

\* the host's clock advances through the hours of the round
TickRates ==
    \E t \in RateTimePoints :
      /\ t > block_timestamp
      /\ block_timestamp' = t
      /\ UNCHANGED <<storage, log, pending, settled, released, staked, nbets>>

NextRates ==
    \/ BetOnTeam
    \/ TickRates

SpecRates == InitRates /\ [][NextRates]_vars

----------------------------------------------------------------------------
(* Rounds from start_game to end_game: the state after the admin set the   *)
(* pot, a commission rate and a two hour duration and started the round,   *)
(* then bets of three accounts as the clock runs, then end_game.           *)

OpenRound(rate) ==
    LET s1 == set_pot_size(initialize(ADMIN), ADMIN, 1).st
        s2 == set_commission_rate(s1, ADMIN, rate).st
        s3 == set_game_duration(s2, ADMIN, 2 * SECONDS_PER_HOUR).st
    IN  start_game(s3, ADMIN, 0)

InitSettle ==
    /\ \E x \in SettleRates :
         /\ storage = OpenRound(x).st
         /\ log = [started |-> [kind |-> OpenRound(x).ev.kind,
                                pot_size |-> OpenRound(x).ev.pot_size,
                                commission_rate |-> OpenRound(x).ev.commission_rate],
                   settlement |-> NoEvents]
    /\ block_timestamp = 0
    /\ pending = {}
    /\ settled = EmptyMap
    /\ released = EmptyMap
    /\ staked = EmptyMap
    /\ nbets = 0

BetOnTeamSettle == PlaceBet(SettleBettors, SettleDeposits, MaxSettleBets)

NextSettle ==
    \/ BetOnTeamSettle
    \/ Tick
    \/ EndGame

SpecSettle == InitSettle /\ [][NextSettle]_vars

----------------------------------------------------------------------------
(* Properties *)

SumMap(m) == SumOver(m, DOMAIN m)

\* the round's pot in token units, as logged when the round started
RoundPot == log.started.pot_size * ONE_NEAR

\* the round was closed by end_game
Ended == log.settlement.kind = "game_ended"

\* the round was closed by force_end_game_refund
Refunded == log.settlement.kind = "force_refund_triggered"

\* everything u staked in the round, over both ledgers
StakeOf(u) ==
      (IF u \in DOMAIN storage.team_a_bets THEN storage.team_a_bets[u].amount ELSE 0)
    + (IF u \in DOMAIN storage.team_b_bets THEN storage.team_b_bets[u].amount ELSE 0)

TotalStake == SumAmount(storage.team_a_bets) + SumAmount(storage.team_b_bets)

WinningBets == BetsOf(storage, storage.winning_team)

LosingBets == BetsOf(storage, IF storage.winning_team = "B" THEN "A" ELSE "B")

\* C1 (as claimed): after end_game, the winners' payouts plus the losers'
\* refunds plus the commission are at most the pot plus the stakes of both
\* sides.  The code charges the commission and pays the whole pot also when
\* the losing side staked less than the commission (or nothing at all).
C1_PayoutsWithinPotAndStakes ==
    Ended =>
        SumMap(log.settlement.winner_payout) + SumMap(log.settlement.loser_payout)
          + log.settlement.commission
        <= RoundPot + TotalStake

\* C2: every withdrawable balance is >= 0; after end_game the balance of a
\* participant of the winning side is at most their stake plus the pot and
\* that of a participant of the losing side is at most their stake (the stake
\* of a participant being everything they staked in the round).
C2_BalanceBounds ==
    /\ \A u \in DOMAIN storage.withdrawable_balances :
          storage.withdrawable_balances[u] >= 0
    /\ \A u \in DOMAIN settled : settled[u] >= 0
    /\ Ended =>
         \A u \in DOMAIN settled :
            /\ u \in DOMAIN WinningBets => settled[u] <= StakeOf(u) + RoundPot
            /\ u \in DOMAIN LosingBets => settled[u] <= StakeOf(u)
            /\ u \in DOMAIN storage.withdrawable_balances =>
                  storage.withdrawable_balances[u] = settled[u]

\* C2 witness: a round ended with a winner paid more than their stake and a
\* loser refunded a part of theirs.
C2_Witness ==
    /\ Ended
    /\ \E w \in DOMAIN WinningBets \ DOMAIN LosingBets : settled[w] > StakeOf(w)
    /\ \E l \in DOMAIN LosingBets : settled[l] > 0 /\ settled[l] < StakeOf(l)

\* the round is open, not paused, both sides hold bets and their points tie
OpenTie ==
    /\ storage.game_active
    /\ ~storage.paused
    /\ storage.team_a_bets # EmptyMap
    /\ storage.team_b_bets # EmptyMap
    /\ storage.team_a_points = storage.team_b_points

\* C3 (as claimed): end_game on an open round with tied points settles the
\* round by refunding every stake: the round closes and every participant's
\* withdrawable balance is their stake.
C3_TieSettledByRefund ==
    OpenTie =>
        LET r == end_game(storage, storage.admin) IN
        /\ r.err = "ok"
        /\ ~r.st.game_active
        /\ r.st.withdrawable_balances =
              RefundBalances(storage.team_a_bets, storage.team_b_bets)

\* C3 (amended): end_game on an open round with tied points is rejected with
\* "Cannot end game with tie score" and changes nothing: the round stays
\* open and no balance is computed; force_end_game_refund on the same state
\* is what refunds every stake, and it logs no commission.
C3_TieRejected ==
    OpenTie =>
        LET r == end_game(storage, storage.admin)
            f == force_end_game_refund(storage, storage.admin)
        IN  /\ r.err = ErrTie
            /\ r.st = storage
            /\ storage.withdrawable_balances = EmptyMap
            /\ f.err = "ok"
            /\ ~f.st.game_active
            /\ f.st.withdrawable_balances = [u \in DOMAIN staked |-> staked[u]]
            /\ f.ev.kind = "force_refund_triggered"

\* C3 witness: an open round in which both sides hold the same positive points
C3_Witness == OpenTie /\ storage.team_a_points > 0

\* the amount u may claim for the settled round (0 when u has no entry)
SettledAmount(u) == IF u \in DOMAIN settled THEN settled[u] ELSE 0

\* C4: between a settlement and the next start_game each participant claims
\* at most once: a withdraw that succeeds is the participant's first of the
\* round and releases exactly the balance the settlement computed, and once
\* a participant has claimed, any further withdraw by them fails, with "No
\* balance to withdraw" whenever the pause guard lets the call through.
C4_ClaimAtMostOnce ==
    \A u \in Users :
      LET r == withdraw(storage, u) IN
      /\ r.err = "ok" =>
            /\ u \notin DOMAIN released
            /\ r.ev.amount = SettledAmount(u)
      /\ u \in DOMAIN released =>
            /\ released[u] = SettledAmount(u)
            /\ r.err # "ok"
            /\ r.st = storage
            /\ ~storage.paused => r.err = ErrNoBalance

\* C4 witness: a participant has claimed a positive balance, another has
\* not claimed yet, and the contract is not paused
C4_Witness ==
    /\ ~storage.paused
    /\ \E u \in DOMAIN released : released[u] > 0
    /\ \E v \in DOMAIN storage.withdrawable_balances :
          v \notin DOMAIN released /\ storage.withdrawable_balances[v] > 0

\* C5: withdraw stores the balances without the caller's entry before the
\* transfer is handed to the host, so while a participant's transfer is in
\* flight a further withdraw by them fails, and what has been handed to the
\* transfer step for a participant never exceeds their settled balance.
C5_ClearBeforeTransfer ==
    /\ \A u \in Users :
          LET r == withdraw(storage, u) IN
          r.err = "ok" => u \notin DOMAIN r.st.withdrawable_balances
    /\ \A u \in DOMAIN released : released[u] <= SettledAmount(u)
    /\ \A u \in pending \cap DOMAIN released :
          /\ u \notin DOMAIN storage.withdrawable_balances
          /\ withdraw(storage, u).err # "ok"

\* C5 witness: a participant's transfer of this round is in flight (the
\* balance is cleared, the transfer not yet executed) and the contract is
\* not paused, so that a reentrant withdraw reaches the balance check
C5_Witness ==
    /\ ~storage.paused
    /\ \E u \in pending \cap DOMAIN released :
          released[u] > 0 /\ withdraw(storage, u).err = ErrNoBalance

\* C6: after force_end_game_refund every participant's withdrawable balance
\* is the total of the deposits they attached during the round, on either
\* team, and the accounts that did not bet have no balance.
C6_RefundIsStake ==
    /\ Refunded =>
          /\ DOMAIN settled = DOMAIN staked
          /\ \A u \in DOMAIN staked : settled[u] = staked[u]
    /\ storage.game_active =>
          LET f == force_end_game_refund(storage, storage.admin) IN
          f.err = "ok" =>
              f.st.withdrawable_balances = [u \in DOMAIN staked |-> staked[u]]

\* C6 witness: a refunded round in which a participant staked on both teams,
\* earned points, and is owed the sum of the two stakes
C6_Witness ==
    /\ Refunded
    /\ \E u \in DOMAIN storage.team_a_bets \cap DOMAIN storage.team_b_bets :
          /\ storage.team_a_bets[u].points > 0
          /\ settled[u] = storage.team_a_bets[u].amount + storage.team_b_bets[u].amount

\* a settlement has closed the round since the last start_game
Closed == Ended \/ Refunded

\* C7: a closed round stays closed: after end_game or force_end_game_refund
\* the round is not active, and every bet_on_team, end_game and
\* force_end_game_refund call is rejected and leaves the state, hence the
\* balances the settlement computed, as it is.
C7_ClosedStaysClosed ==
    Closed =>
        /\ ~storage.game_active
        /\ \A c \in Users :
              /\ end_game(storage, c).err # "ok"
              /\ end_game(storage, c).st = storage
              /\ force_end_game_refund(storage, c).err # "ok"
              /\ force_end_game_refund(storage, c).st = storage
              /\ \A t \in Teams, d \in Deposits :
                    /\ bet_on_team(storage, c, t, d, block_timestamp).err # "ok"
                    /\ bet_on_team(storage, c, t, d, block_timestamp).st = storage

\* C7 witness: a closed round with unclaimed balances, inside the betting
\* window and not paused, where only the closed phase rejects the calls
C7_Witness ==
    /\ Closed
    /\ ~storage.paused
    /\ storage.withdrawable_balances # EmptyMap
    /\ block_timestamp - storage.game_start_time
          < storage.game_duration * NANOS_PER_SECOND
    /\ end_game(storage, storage.admin).err = ErrNoGame
    /\ bet_on_team(storage, "alice", "A", 15, block_timestamp).err = ErrNoGame

\* C8 (as claimed): no participant has a record in both team_a_bets and
\* team_b_bets.  bet_on_team looks only at the chosen team's dict, so a bet
\* on the other team is accepted and creates a second record.
C8_OneSidePerParticipant ==
    (DOMAIN storage.team_a_bets) \cap (DOMAIN storage.team_b_bets) = {}

\* the outcome r of a call leaves the stored state unchanged when it is a raise
Atomic(r) == r.err # "ok" => r.st = storage

\* C9: every rejected call leaves the stored state unchanged: in each public
\* method every raise comes before the method's first storage write.
C9_RejectedCallChangesNothing ==
    \A c \in Users :
      /\ Atomic(pause_game(storage, c))
      /\ Atomic(unpause_game(storage, c))
      /\ \A p \in PotSizes : Atomic(set_pot_size(storage, c, p))
      /\ \A x \in CommissionRates : Atomic(set_commission_rate(storage, c, x))
      /\ \A d \in Durations : Atomic(set_game_duration(storage, c, d))
      /\ Atomic(start_game(storage, c, block_timestamp))
      /\ \A t \in Teams, d \in Deposits :
            Atomic(bet_on_team(storage, c, t, d, block_timestamp))
      /\ Atomic(end_game(storage, c))
      /\ Atomic(force_end_game_refund(storage, c))
      /\ Atomic(withdraw(storage, c))

\* C9 witness: an open round with bets in which the checks that come last in
\* their methods reject: end_game for the tie, bet_on_team for the elapsed
\* betting period, withdraw for the missing balance
C9_Witness ==
    /\ storage.game_active
    /\ nbets > 0
    /\ end_game(storage, storage.admin).err = ErrTie
    /\ bet_on_team(storage, "alice", "A", 15, block_timestamp).err = ErrEnded
    /\ withdraw(storage, "alice").err = ErrNoBalance
    /\ set_commission_rate(storage, "bob", 50).err = ErrAdmin

\* the points of u's record in bets (0 without a record)
RecordPoints(bets, u) == IF u \in DOMAIN bets THEN bets[u].points ELSE 0

OtherTeam(t) == IF t = "A" THEN "B" ELSE "A"

\* C10: each team's point total is the sum of the points of its records, and
\* a successful bet adds the points it earns to the chosen team's total and
\* leaves the other team's total and records as they are.
C10_PointTotals ==
    /\ storage.team_a_points = SumPoints(storage.team_a_bets)
    /\ storage.team_b_points = SumPoints(storage.team_b_bets)
    /\ \A c \in Users, t \in Teams, d \in Deposits :
          LET r == bet_on_team(storage, c, t, d, block_timestamp) IN
          r.err = "ok" =>
            /\ PointsOf(r.st, t) - PointsOf(storage, t)
                 = RecordPoints(BetsOf(r.st, t), c) - RecordPoints(BetsOf(storage, t), c)
            /\ PointsOf(r.st, t) - PointsOf(storage, t) = r.ev.points
            /\ PointsOf(r.st, OtherTeam(t)) = PointsOf(storage, OtherTeam(t))
            /\ BetsOf(r.st, OtherTeam(t)) = BetsOf(storage, OtherTeam(t))
            /\ \A u \in DOMAIN BetsOf(storage, t) \ {c} :
                  BetsOf(r.st, t)[u] = BetsOf(storage, t)[u]

\* C10 witness: an open round in which a record is the sum of two bets placed
\* at different rates and a further bet on the other team is accepted
C10_Witness ==
    /\ storage.game_active
    /\ \E u \in DOMAIN storage.team_a_bets :
          /\ storage.team_a_bets[u].points = 47
          /\ storage.team_a_bets[u].amount = 30
    /\ storage.team_a_points = 47
    /\ bet_on_team(storage, "bob", "B", 15, block_timestamp).err = "ok"

\* the rate the initial table gives for a bet placed `elapsed` after the
\* start: 24 in the first hour, one less each hour, 1 after the tenth
TableRate(elapsed) ==
    LET hours == elapsed \div (SECONDS_PER_HOUR * NANOS_PER_SECOND)
    IN  IF hours < 10 THEN 24 - hours ELSE 1

\* C11: the points credited by a successful bet_on_team are the whole tokens
\* of the deposit times the rate of the hour in which the bet is placed: the
\* table's entry for that hour, 1 past the table; the rate is table[0] at the
\* start, table[1] at 3600 s, 1 from 36000 s on, and a deposit below one
\* whole token earns no points.  The points are what the record gains.
C11_PointsCredited ==
    \A c \in Bettors, t \in {"A", "B"}, d \in Deposits :
      LET r == bet_on_team(storage, c, t, d, block_timestamp)
          elapsed == block_timestamp - storage.game_start_time
      IN  r.err = "ok" =>
            /\ r.ev.points = (d \div ONE_NEAR) * TableRate(elapsed)
            /\ RecordPoints(BetsOf(r.st, t), c)
                  = RecordPoints(BetsOf(storage, t), c) + r.ev.points
            /\ elapsed = 0 => r.ev.points = (d \div ONE_NEAR) * POINT_RATES[1]
            /\ elapsed = SECONDS_PER_HOUR * NANOS_PER_SECOND =>
                  r.ev.points = (d \div ONE_NEAR) * POINT_RATES[2]
            /\ elapsed >= SECONDS_PER_HOUR * NANOS_PER_SECOND * Len(POINT_RATES) =>
                  r.ev.points = d \div ONE_NEAR
            /\ d < ONE_NEAR => r.ev.points = 0

\* C11 witness: past the end of the rate table a record holds the points of
\* a bet of the first hour and of a bet placed past the table (24 + 1 for
\* 1.5 tokens each), and a further bet is accepted at rate 1
C11_Witness ==
    /\ block_timestamp - storage.game_start_time
          >= SECONDS_PER_HOUR * NANOS_PER_SECOND * Len(POINT_RATES)
    /\ \E u \in DOMAIN storage.team_a_bets :
          /\ storage.team_a_bets[u].amount = 30
          /\ storage.team_a_bets[u].points = 25
    /\ bet_on_team(storage, "bob", "B", 15, block_timestamp).err = "ok"
    /\ bet_on_team(storage, "bob", "B", 15, block_timestamp).ev.points = 1

\* the outcome r of a call is a raise that leaves the stored state as it is
Rejects(r) == r.err # "ok" /\ r.st = storage

\* C12: while the contract is paused every call of set_pot_size,
\* set_commission_rate, set_game_duration, start_game, bet_on_team, end_game,
\* force_end_game_refund and withdraw, by any caller, fails and leaves the
\* state unchanged (with "Contract is paused" for the admin, and for anyone
\* in bet_on_team and withdraw); the only call that changes the state is the
\* admin's unpause_game, a repeated pause_game changes nothing, and
\* pause_game and unpause_game change nothing but the paused flag.
C12_PausedFreezes ==
    /\ storage.paused =>
         \A c \in Users :
           /\ \A p \in PotSizes : Rejects(set_pot_size(storage, c, p))
           /\ \A x \in CommissionRates : Rejects(set_commission_rate(storage, c, x))
           /\ \A d \in Durations : Rejects(set_game_duration(storage, c, d))
           /\ Rejects(start_game(storage, c, block_timestamp))
           /\ Rejects(end_game(storage, c))
           /\ Rejects(force_end_game_refund(storage, c))
           /\ c = storage.admin =>
                 /\ start_game(storage, c, block_timestamp).err = ErrPaused
                 /\ end_game(storage, c).err = ErrPaused
                 /\ force_end_game_refund(storage, c).err = ErrPaused
           /\ \A t \in Teams, d \in Deposits :
                 /\ Rejects(bet_on_team(storage, c, t, d, block_timestamp))
                 /\ bet_on_team(storage, c, t, d, block_timestamp).err = ErrPaused
           /\ Rejects(withdraw(storage, c))
           /\ withdraw(storage, c).err = ErrPaused
           /\ pause_game(storage, c).st = storage
           /\ unpause_game(storage, c).st # storage => c = storage.admin
    /\ \A c \in Users :
         /\ pause_game(storage, c).err = "ok" =>
               pause_game(storage, c).st = [storage EXCEPT !.paused = TRUE]
         /\ unpause_game(storage, c).err = "ok" =>
               unpause_game(storage, c).st = [storage EXCEPT !.paused = FALSE]

\* C12 witness: the contract is paused after a round was settled, with a
\* positive balance unclaimed, a pot set and no round open, so that withdraw
\* and start_game would succeed but for the pause
C12_Witness ==
    /\ storage.paused
    /\ ~storage.game_active
    /\ storage.pot_size > 0
    /\ \E u \in DOMAIN storage.withdrawable_balances :
          storage.withdrawable_balances[u] > 0

\* the stored states the calls of the public methods lead to from the
\* current state, for every caller and every argument of the input sets
Outcomes ==
    UNION {
      {pause_game(storage, c).st, unpause_game(storage, c).st,
       start_game(storage, c, block_timestamp).st,
       end_game(storage, c).st, force_end_game_refund(storage, c).st,
       withdraw(storage, c).st}
      \cup {set_pot_size(storage, c, p).st : p \in PotSizes}
      \cup {set_commission_rate(storage, c, x).st : x \in CommissionRates}
      \cup {set_game_duration(storage, c, d).st : d \in Durations}
      \cup {bet_on_team(storage, c, t, d, block_timestamp).st :
               t \in Teams, d \in Deposits}
      : c \in Users }

\* every record of bets is in later, with at least its amount and points
KeepsRecords(bets, later) ==
    \A u \in DOMAIN bets :
      /\ u \in DOMAIN later
      /\ later[u].amount >= bets[u].amount
      /\ later[u].points >= bets[u].points

\* C13: start_game succeeds only when no round is active and pot_size > 0,
\* and on success both bet maps are empty, both point totals 0, winning_team
\* empty, force_refund_mode false and withdrawable_balances empty, whatever
\* was unclaimed.  So while a round is open no call deletes a bet record:
\* the records hold everything staked since the round started.
C13_StartResetsRound ==
    /\ \A c \in Users :
         LET r == start_game(storage, c, block_timestamp) IN
         r.err = "ok" =>
           /\ ~storage.game_active
           /\ storage.pot_size > 0
           /\ r.st.game_active
           /\ r.st.team_a_bets = EmptyMap
           /\ r.st.team_b_bets = EmptyMap
           /\ r.st.team_a_points = 0
           /\ r.st.team_b_points = 0
           /\ r.st.winning_team = ""
           /\ ~r.st.force_refund_mode
           /\ r.st.withdrawable_balances = EmptyMap
    /\ storage.game_active =>
         /\ \A s \in Outcomes :
               /\ KeepsRecords(storage.team_a_bets, s.team_a_bets)
               /\ KeepsRecords(storage.team_b_bets, s.team_b_bets)
         /\ DOMAIN staked = DOMAIN storage.team_a_bets \cup DOMAIN storage.team_b_bets
         /\ \A u \in DOMAIN staked : StakeOf(u) = staked[u]

\* C13 witness: a settled round with records in both ledgers and a positive
\* balance still unclaimed, in which the admin's start_game succeeds
C13_Witness ==
    /\ ~storage.game_active
    /\ storage.team_a_bets # EmptyMap
    /\ storage.team_b_bets # EmptyMap
    /\ \E u \in DOMAIN storage.withdrawable_balances :
          storage.withdrawable_balances[u] > 0
    /\ start_game(storage, storage.admin, block_timestamp).err = "ok"

\* C14 (as claimed): after end_game every participant with a record on the
\* winning side has the withdrawable balance stake + floor(points * pot /
\* winning side's total points), stake and points being those of that
\* record.  An account with a record on both sides (see C8) is also visited
\* by the loser loop, which overwrites its entry with the loser's refund.
C14_WinnerBalance ==
    Ended =>
      \A u \in DOMAIN WinningBets :
        /\ u \in DOMAIN settled
        /\ settled[u] =
             WinningBets[u].amount
             + (IF SumPoints(WinningBets) > 0
                THEN (WinningBets[u].points * RoundPot) \div SumPoints(WinningBets)
                ELSE 0)

\* pot + floor(pot * commission_rate / 100), from what start_game logged
TotalDue == RoundPot + (RoundPot * log.started.commission_rate) \div 100

\* the losing record's stake less its floored share of total_due when the
\* losing side's total stake covers total_due, 0 otherwise
LosingBalance(l) ==
    IF SumAmount(LosingBets) >= TotalDue
    THEN LosingBets[l].amount
           - (LosingBets[l].amount * TotalDue) \div SumAmount(LosingBets)
    ELSE 0

\* C15 (as claimed): after end_game every losing record's balance is stake -
\* floor(stake * total_due / losing total) when the losing total covers
\* total_due and 0 otherwise, and a loser with a positive stake is left with
\* nothing only in the second case.
C15_NothingOnlyIfUncovered ==
    Ended =>
      \A l \in DOMAIN LosingBets :
        /\ settled[l] = LosingBalance(l)
        /\ LosingBets[l].amount > 0 /\ settled[l] = 0 =>
              SumAmount(LosingBets) < TotalDue

\* C15 (amended): the two formulas hold, and a loser with a positive stake
\* is left with nothing exactly when the losing total is at most total_due:
\* in the uncovered case, and in the covered case when the losing total
\* equals total_due.
C15_LosingBalance ==
    Ended =>
      \A l \in DOMAIN LosingBets :
        /\ settled[l] = LosingBalance(l)
        /\ LosingBets[l].amount > 0 =>
              (settled[l] = 0 <=> SumAmount(LosingBets) <= TotalDue)

\* C15 witness: a round ended with the losing total equal to total_due, a
\* loser with a positive stake and a winner
C15_Witness ==
    /\ Ended
    /\ WinningBets # EmptyMap
    /\ SumAmount(LosingBets) = TotalDue
    /\ \E l \in DOMAIN LosingBets \ DOMAIN WinningBets :
          LosingBets[l].amount > 0 /\ settled[l] = 0

\* the pot shares end_game computed: the winners' payouts less their stakes
SumShares == SumMap(log.settlement.winner_payout) - SumAmount(WinningBets)

\* the refunds end_game computed for the losing records
SumRefunds == SumMap(log.settlement.loser_payout)

\* what the losing records lose: their stakes less their refunds
SumLosses == SumAmount(LosingBets) - SumRefunds

\* the losing side's total stake covers total_due
Covered == SumAmount(LosingBets) >= TotalDue

\* C16 (as claimed): rounding never favours the participants: after end_game
\* on a round whose losing side covers total_due, the winners' pot shares
\* plus the losers' refunds are at most pot + (losing total - total_due), and
\* the losers together pay at least pot + commission.  Stated for the rounds
\* in which no account has a record on both sides.
C16_RoundingRetained ==
    Ended /\ Covered /\ DOMAIN WinningBets \cap DOMAIN LosingBets = {} =>
      /\ SumShares + SumRefunds <= RoundPot + (SumAmount(LosingBets) - TotalDue)
      /\ SumLosses >= TotalDue

\* C16 (amended): after end_game on a round whose losing side covers
\* total_due, the winners' pot shares sum to at most the pot, and the losses
\* of the losing records, each rounded down, sum to at most total_due and to
\* at least total_due less one unit per losing record after the first; so
\* the shares plus the refunds are at most pot + (losing total - total_due)
\* + (number of losing records - 1).
C16_RoundingBounds ==
    Ended /\ Covered =>
      /\ SumShares <= RoundPot
      /\ SumLosses <= TotalDue
      /\ SumLosses >= TotalDue - (Cardinality(DOMAIN LosingBets) - 1)
      /\ SumShares + SumRefunds
           <= RoundPot + (SumAmount(LosingBets) - TotalDue)
                + (Cardinality(DOMAIN LosingBets) - 1)

\* C16 witness: a round ended with a winner who is paid the whole pot and two
\* losing records whose floored losses sum to less than total_due
C16_Witness ==
    /\ Ended
    /\ Covered
    /\ SumShares = RoundPot
    /\ Cardinality(DOMAIN LosingBets) = 2
    /\ DOMAIN WinningBets \cap DOMAIN LosingBets = {}
    /\ SumLosses < TotalDue

\* a round is open and its betting period has elapsed: a bet that passes
\* the earlier checks is rejected with "Betting period has ended"
WindowOver ==
    /\ storage.game_active
    /\ block_timestamp - storage.game_start_time
         >= storage.game_duration * NANOS_PER_SECOND

\* the two ledgers and point totals of the stored state s
LedgerOf(s) == <<s.team_a_bets, s.team_b_bets, s.team_a_points, s.team_b_points>>

\* C17: no bet is admitted outside the betting window: bet_on_team succeeds
\* only if the round is active, the team is A or B, the deposit is at least
\* MIN_BET and the elapsed time is strictly less than game_duration; and once
\* the period has ended in a round, every bet is rejected, every call leaves
\* the ledgers and the point totals as they are, and whatever call is made,
\* while the round stays open the period has ended at every later time.
C17_BettingWindow ==
    /\ \A c \in Users, t \in Teams, d \in Deposits :
         LET r == bet_on_team(storage, c, t, d, block_timestamp) IN
         /\ r.err = "ok" =>
              /\ storage.game_active
              /\ t \in {"A", "B"}
              /\ d >= MIN_BET
              /\ block_timestamp - storage.game_start_time
                   < storage.game_duration * NANOS_PER_SECOND
         /\ WindowOver => r.err # "ok" /\ r.st = storage
    /\ WindowOver =>
         \A s \in Outcomes :
           /\ LedgerOf(s) = LedgerOf(storage)
           /\ s.game_active =>
                \A now \in TimePoints :
                  now >= block_timestamp =>
                    now - s.game_start_time >= s.game_duration * NANOS_PER_SECOND

\* C17 witness: an open round with bets, not paused, whose period has ended:
\* a bet that was accepted before is rejected with "Betting period has ended"
C17_Witness ==
    /\ WindowOver
    /\ ~storage.paused
    /\ \E u \in DOMAIN storage.team_a_bets : storage.team_a_bets[u].amount = 15
    /\ bet_on_team(storage, "alice", "A", 15, block_timestamp).err = ErrEnded

\* C18: whenever game_active is true withdrawable_balances is empty, so every
\* withdraw during an open round fails and changes nothing; a participant's
\* balance is positive only in a round that a settlement has closed, before
\* the participant's claim and before the next start_game, and it is then
\* the balance the settlement computed.
C18_NoBalanceWhileOpen ==
    /\ storage.game_active =>
         /\ storage.withdrawable_balances = EmptyMap
         /\ \A c \in Users : Rejects(withdraw(storage, c))
    /\ \A u \in DOMAIN storage.withdrawable_balances :
         storage.withdrawable_balances[u] > 0 =>
           /\ ~storage.game_active
           /\ Closed
           /\ u \notin DOMAIN released
           /\ storage.withdrawable_balances[u] = SettledAmount(u)
    /\ \A s \in Outcomes :
         s.game_active => s.withdrawable_balances = EmptyMap

\* C18 witness: an open round, not paused, in which an account that has
\* staked calls withdraw and is refused for want of a balance
C18_Witness ==
    /\ storage.game_active
    /\ ~storage.paused
    /\ \E u \in DOMAIN staked :
          staked[u] > 0 /\ withdraw(storage, u).err = ErrNoBalance

\* C19: in every reachable state commission_rate is in 0..50 and
\* game_duration is at least 60; while a round is active pot_size > 0 and no
\* call changes pot_size, commission_rate or game_duration (the setters are
\* rejected), so they are those start_game logged, and the commission
\* end_game charges is computed from the pot and the rate in force at
\* start_game.
C19_ConfigFrozen ==
    /\ storage.commission_rate \in 0..MAX_COMMISSION_RATE
    /\ storage.game_duration >= MIN_GAME_DURATION
    /\ storage.game_active =>
         /\ storage.pot_size > 0
         /\ storage.pot_size = log.started.pot_size
         /\ storage.commission_rate = log.started.commission_rate
         /\ \A c \in Users :
              /\ \A p \in PotSizes : Rejects(set_pot_size(storage, c, p))
              /\ \A x \in CommissionRates :
                    Rejects(set_commission_rate(storage, c, x))
              /\ \A d \in Durations : Rejects(set_game_duration(storage, c, d))
         /\ \A s \in Outcomes :
              /\ s.pot_size = storage.pot_size
              /\ s.commission_rate = storage.commission_rate
              /\ s.game_duration = storage.game_duration
    /\ Ended =>
         log.settlement.commission
           = (RoundPot * log.started.commission_rate) \div 100

\* C19 witness: an open round with bets, started with the largest commission
\* rate and a two hour duration, not paused, in which the admin's setters are
\* refused because of the active round
C19_Witness ==
    /\ storage.game_active
    /\ ~storage.paused
    /\ nbets > 0
    /\ storage.commission_rate = MAX_COMMISSION_RATE
    /\ storage.game_duration = 2 * SECONDS_PER_HOUR
    /\ set_pot_size(storage, storage.admin, 0).err = ErrPotActive
    /\ set_commission_rate(storage, storage.admin, 50).err = ErrRateActive
    /\ set_game_duration(storage, storage.admin, 7200).err = ErrDurActive

\* the stored state after a bet of account c on team t that left s as the
\* state: only c's record on t and t's point total are taken from s
OnlyOwnBet(s, c, t) ==
    StorePoints(StoreBets(storage, t,
                          Put(BetsOf(storage, t), c, BetsOf(s, t)[c])),
                t, PointsOf(s, t))

\* C20: for every caller other than the admin, pause_game, unpause_game,
\* set_pot_size, set_commission_rate, set_game_duration, start_game, end_game
\* and force_end_game_refund fail with "Only admin can call this function"
\* and leave the state unchanged; such a caller changes the state only by
\* bet_on_team, which changes only the caller's record on the chosen team and
\* that team's point total, and by withdraw, which only removes the caller's
\* withdrawable entry; and no call changes the admin set by initialize.
C20_AdminOnly ==
    /\ storage.admin = ADMIN
    /\ \A s \in Outcomes : s.admin = storage.admin
    /\ \A c \in Users \ {storage.admin} :
         /\ pause_game(storage, c).err = ErrAdmin
         /\ Rejects(pause_game(storage, c))
         /\ unpause_game(storage, c).err = ErrAdmin
         /\ Rejects(unpause_game(storage, c))
         /\ \A p \in PotSizes :
               /\ set_pot_size(storage, c, p).err = ErrAdmin
               /\ Rejects(set_pot_size(storage, c, p))
         /\ \A x \in CommissionRates :
               /\ set_commission_rate(storage, c, x).err = ErrAdmin
               /\ Rejects(set_commission_rate(storage, c, x))
         /\ \A d \in Durations :
               /\ set_game_duration(storage, c, d).err = ErrAdmin
               /\ Rejects(set_game_duration(storage, c, d))
         /\ start_game(storage, c, block_timestamp).err = ErrAdmin
         /\ Rejects(start_game(storage, c, block_timestamp))
         /\ end_game(storage, c).err = ErrAdmin
         /\ Rejects(end_game(storage, c))
         /\ force_end_game_refund(storage, c).err = ErrAdmin
         /\ Rejects(force_end_game_refund(storage, c))
         /\ \A t \in Teams, d \in Deposits :
               LET r == bet_on_team(storage, c, t, d, block_timestamp) IN
               r.err = "ok" => r.st = OnlyOwnBet(r.st, c, t)
         /\ LET w == withdraw(storage, c) IN
            w.err = "ok" =>
              w.st = [storage EXCEPT !.withdrawable_balances =
                                        Del(storage.withdrawable_balances, c)]

\* C20 witness: an open round, not paused, in which the other account holds
\* a record and the points differ: the admin's end_game and
\* force_end_game_refund would succeed, those of a participant are refused,
\* and the participant's further bet is accepted
C20_Witness ==
    /\ storage.game_active
    /\ ~storage.paused
    /\ "alice" \in DOMAIN storage.team_a_bets
    /\ end_game(storage, storage.admin).err = "ok"
    /\ force_end_game_refund(storage, storage.admin).err = "ok"
    /\ end_game(storage, "bob").err = ErrAdmin
    /\ force_end_game_refund(storage, "bob").err = ErrAdmin
    /\ bet_on_team(storage, "bob", "A", 15, block_timestamp).err = "ok"

====
